---- MODULE Spec2Model ----
(***************************************************************************)
(* Model of the AI therapist agent backend: the three tool clients         *)
(* (query_medgemma, call_emergency, locate_therapist_tool), their tool     *)
(* wrappers, and parse_response.                                           *)
(*                                                                         *)
(* Python strings on which the code does character-level work              *)
(* (strip, split, len) are sequences of one-character strings; fixed       *)
(* messages are TLA+ strings or records naming the message and the         *)
(* location interpolated into it.                                          *)
(***************************************************************************)
EXTENDS Integers, Sequences, FiniteSets, TLC

VARIABLES
    pc,                 \* position of the running operation
    result,             \* value returned by the operation that last returned
    raised,             \* TRUE when the operation left by an exception
    ollama,             \* module global of tools.py: "module" or None
    Client,             \* module global of tools.py: "class" or None
    prompt,             \* argument of query_medgemma
    chat_calls,         \* requests sent to ollama.chat in this invocation
    api_calls,          \* requests sent to client.calls.create in this invocation
    stdout,             \* lines printed in this invocation
    call_outcome,       \* what the telephony client did in this invocation
    requests_module,    \* whether "import requests" succeeds
    location,           \* argument of locate_therapist_tool
    qi,                 \* index of the query of the for loop over queries
    ri,                 \* results of the current response already iterated
    all_results,        \* local all_results
    seen_names,         \* local seen_names
    requests,           \* q parameters of the GET requests issued so far
    non2xx_seen,        \* some response had a status outside 200..299
    exception_seen,     \* some statement of the operation raised
    dup_skipped,        \* some result was skipped because its name was seen
    unusable_skipped,   \* some result with an empty or short name was iterated
    usable_seen,        \* some result with a name of 4 characters or more was iterated
    stream,             \* steps of the stream consumed so far
    tool_called_name,   \* local of parse_response
    final_response      \* local of parse_response

vars == <<pc, result, raised, ollama, Client, prompt, chat_calls, api_calls,
          stdout, call_outcome, requests_module, location, qi, ri, all_results,
          seen_names, requests, non2xx_seen, exception_seen, dup_skipped,
          unusable_skipped, usable_seen, stream, tool_called_name, final_response>>

toolVars == <<ollama, Client, prompt, chat_calls, api_calls, stdout, call_outcome>>
locateVars == <<requests_module, location, qi, ri, all_results, seen_names,
                requests, non2xx_seen, exception_seen, dup_skipped,
                unusable_skipped, usable_seen>>
parseVars == <<stream, tool_called_name, final_response>>

\* ---------------------------------------------------------------- bounds
MaxContentLen == 2      \* length of a generated content string
MaxResults == 3         \* results in one geocoding response
MaxSteps == 2           \* steps in a stream
MaxMsgs == 2            \* messages in one step

\* ---------------------------------------------------------------- values
None == "<None object>"             \* Python's None

Whitespace == {" ", "\n"}
Chars == {" ", "\n", "a"}

RECURSIVE SeqsUpTo(_, _)
SeqsUpTo(S, n) ==
    IF n = 0 THEN {<<>>}
    ELSE LET shorter == SeqsUpTo(S, n - 1)
         IN  shorter \cup {Append(s, x) : s \in {t \in shorter : Len(t) = n - 1}, x \in S}

Last(s) == s[Len(s)]

\* ------------------------------------------------- tools.py: query_medgemma
BackendUnavailableMessage ==
    "I'm having technical difficulties: language model backend is unavailable right now. Please try again later."
RuntimeErrorMessage ==
    "I'm having technical difficulties, but I want you to know your feelings matter. Please try again shortly."

Prompts == {"I feel anxious", "I cannot sleep", ""}

\* str.strip(): leading and trailing whitespace removed
RECURSIVE LStrip(_)
LStrip(s) == IF s # <<>> /\ Head(s) \in Whitespace THEN LStrip(Tail(s)) ELSE s
RECURSIVE RStrip(_)
RStrip(s) ==
    IF s # <<>> /\ Last(s) \in Whitespace THEN RStrip(SubSeq(s, 1, Len(s) - 1)) ELSE s
Strip(s) == RStrip(LStrip(s))

\* what ollama.chat can do: raise, answer without message/content or with a
\* content that is not a string, or answer with a content string
ChatOutcomes ==
    {[kind |-> "raise"], [kind |-> "malformed"]}
    \cup {[kind |-> "content", content |-> c] : c \in SeqsUpTo(Chars, MaxContentLen)}

ChatRequest(p) ==
    [model |-> "alibayram/medgemma:4b", user |-> p,
     num_predict |-> 350]

\* a returned str: a fixed message, or text computed from the backend's content
Fixed(m) == [kind |-> "fixed", text |-> m]
Generated(cs) == [kind |-> "generated", text |-> cs]

MedgemmaUnavailableResultWrongMessage == Fixed(RuntimeErrorMessage)
\* the value returned when ollama is None
MedgemmaUnavailableResult == Fixed(BackendUnavailableMessage)
\* ask_mental_health_specialist(query) -> query_medgemma(query): entry and the
\* "ollama is None" test
AskMentalHealthSpecialist ==
    /\ pc = "idle"
    /\ \E p \in Prompts :
         /\ prompt' = p
         /\ chat_calls' = <<>>
         /\ api_calls' = 0
         /\ stdout' = <<>>
         /\ call_outcome' = "none"
         /\ raised' = FALSE
         /\ IF ollama = None
            THEN /\ pc' = "returned"
                 /\ result' = [op |-> "query_medgemma", value |-> MedgemmaUnavailableResult]
            ELSE /\ pc' = "medgemma_chat"
                 /\ result' = None
    /\ UNCHANGED <<ollama, Client>>
    /\ UNCHANGED locateVars
    /\ UNCHANGED parseVars

\* the value returned from the try block for one outcome of ollama.chat
MedgemmaResult(o) ==
    IF o.kind = "content" THEN Generated(Strip(o.content)) ELSE Fixed(RuntimeErrorMessage)

\* response = ollama.chat(...) and the return of the try block, or the except handler
MedgemmaChat ==
    /\ pc = "medgemma_chat"
    /\ \E o \in ChatOutcomes :
         /\ chat_calls' = Append(chat_calls, ChatRequest(prompt))
         /\ result' = [op |-> "query_medgemma", value |-> MedgemmaResult(o)]
    /\ pc' = "returned"
    /\ UNCHANGED <<raised, ollama, Client, prompt, api_calls, stdout, call_outcome>>
    /\ UNCHANGED locateVars
    /\ UNCHANGED parseVars

\* ------------------------------------------------- tools.py: call_emergency
UnavailableWarning == "Warning: Twilio client not available; cannot place emergency call."
TwilioErrorLine == "Failed to place emergency call (Twilio error)"
CallRecord == [to |-> "EMERGENCY_CONTACT", from_ |-> "TWILIO_FROM_NUMBER",
               url |-> "http://demo.twilio.com/docs/voice.xml"]

\* emergency_call_tool() -> call_emergency(): entry and the "Client is None" test
EmergencyCallTool ==
    /\ pc = "idle"
    /\ chat_calls' = <<>>
    /\ api_calls' = 0
    /\ call_outcome' = "none"
    /\ raised' = FALSE
    /\ IF Client = None
       THEN /\ stdout' = <<UnavailableWarning>>
            /\ pc' = "returned"
            /\ result' = [op |-> "call_emergency", value |-> None]
       ELSE /\ stdout' = <<>>
            /\ pc' = "call_client"
            /\ result' = None
    /\ UNCHANGED <<ollama, Client, prompt>>
    /\ UNCHANGED locateVars
    /\ UNCHANGED parseVars

CallExceptReraises ==
    /\ stdout' = Append(stdout, TwilioErrorLine)
    /\ pc' = "returned"
    /\ raised' = TRUE
    /\ result' = [op |-> "call_emergency", value |-> None]
\* the except handler of call_emergency
CallExcept ==
    /\ stdout' = Append(stdout, TwilioErrorLine)
    /\ pc' = "returned"
    /\ raised' = FALSE
    /\ result' = [op |-> "call_emergency", value |-> None]

\* client = Client(sid, token): constructs or raises
CallClient ==
    /\ pc = "call_client"
    /\ \E ok \in BOOLEAN :
         IF ok
         THEN /\ pc' = "call_create"
              /\ UNCHANGED <<result, raised, stdout, call_outcome>>
         ELSE /\ call_outcome' = "client_raised"
              /\ CallExcept
    /\ UNCHANGED <<ollama, Client, prompt, chat_calls, api_calls>>
    /\ UNCHANGED locateVars
    /\ UNCHANGED parseVars

CallCreateFailedRetries ==
    /\ pc' = "call_create"
    /\ stdout' = Append(stdout, TwilioErrorLine)
    /\ UNCHANGED <<result, raised>>
\* what happens after client.calls.create raised
CallCreateFailed == CallExcept

\* what happens after client.calls.create answered with the call record
CallCreateSucceeded ==
    /\ pc' = "returned"
    /\ result' = [op |-> "call_emergency", value |-> CallRecord]
    /\ UNCHANGED <<raised, stdout>>

\* call = client.calls.create(...): one request, answers or raises
CallCreate ==
    /\ pc = "call_create"
    /\ api_calls' = api_calls + 1
    /\ \E ok \in BOOLEAN :
         /\ call_outcome' = IF ok THEN "created" ELSE "create_raised"
         /\ IF ok THEN CallCreateSucceeded ELSE CallCreateFailed
    /\ UNCHANGED <<ollama, Client, prompt, chat_calls>>
    /\ UNCHANGED locateVars
    /\ UNCHANGED parseVars

\* ------------------------------------- ai_agent.py: locate_therapist_tool
Locations == {"Pune", "Oslo"}
QueryPrefixes == <<"therapist", "psychologist", "mental health clinic", "counseling center">>
NumQueries == Len(QueryPrefixes)
ResultLimit == 5
MinNameLen == 3

\* f"{prefix} {location}" with the other parameters of the request
Query(i, loc) == [q |-> <<QueryPrefixes[i], loc>>, format |-> "json", limit |-> 3]

StatusCodes == {200, 204, 503}

\* dict.get(key, default); a dict is a function from its keys
Get(d, k, default) == IF k \in DOMAIN d THEN d[k] ELSE default

EmptyDict == [k \in {} |-> ""]

\* elements a geocoding response can carry: result objects, and an element
\* that is not an object (the payload was not a list of objects)
ResultPool ==
    { [dict |-> [display_name |-> <<"M","i","n","d",","," ","x">>,
                 address |-> [house_number |-> "12", road |-> "Main St", city |-> "Pune",
                              state |-> "MH", postcode |-> "411001"],
                 lat |-> "18.5", lon |-> "73.8"]],
      [dict |-> [display_name |-> <<"M","i","n","d",","," ","y">>]],
      [dict |-> [display_name |-> <<"m","i","n","d">>,
                 address |-> [road |-> "Hill Rd", town |-> "Lavasa", village |-> "Mulshi"],
                 lat |-> "18.4", lon |-> ""]],
      [dict |-> [display_name |-> <<"C","a","l","m",",","z">>,
                 address |-> EmptyDict]],
      [dict |-> [display_name |-> <<"H","o","p","e">>,
                 address |-> [house_number |-> "7", village |-> "Mulshi", state |-> "MH"],
                 lat |-> "18.6", lon |-> "73.9"]],
      [dict |-> [display_name |-> <<"C","a","r","e","s",","," ","x">>,
                 address |-> [city |-> "", town |-> "Lavasa", postcode |-> "411002"],
                 lat |-> "18.7", lon |-> "73.7"]],
      [dict |-> [display_name |-> <<"P","e","a","k",",","x">>,
                 lat |-> "18.8", lon |-> "73.6"]],
      [dict |-> [display_name |-> <<"Z","e","n",",","x">>,
                 address |-> EmptyDict, lat |-> "18.9", lon |-> "73.5"]],
      [dict |-> [display_name |-> <<",","M","i","n","d">>,
                 address |-> EmptyDict]],
      [dict |-> [lat |-> "19.0", lon |-> "73.4"]],
      [str |-> "error"] }

\* a result whose display string starts with a name of 4 characters or more
Usable(r) ==
    /\ "display_name" \in DOMAIN r.dict
    /\ \E n \in 4..Len(r.dict.display_name) :
         /\ \A i \in 1..n : r.dict.display_name[i] # ","
         /\ n < Len(r.dict.display_name) => r.dict.display_name[n + 1] = ","

\* result.get raises when the element is not an object
IsObject(r) == "dict" \in DOMAIN r

\* s.split(',')[0]
RECURSIVE FirstSegment(_)
FirstSegment(s) ==
    IF s = <<>> \/ Head(s) = "," THEN <<>> ELSE <<Head(s)>> \o FirstSegment(Tail(s))

\* name = result.get('display_name', '').split(',')[0]
ExtractName(r) == FirstSegment(Get(r.dict, "display_name", <<>>))

AcceptWithoutSeenTest(name, seen) == name # <<>> /\ Len(name) > MinNameLen
\* name and name not in seen_names and len(name) > 3
Accept(name, seen) == name # <<>> /\ name \notin seen /\ Len(name) > MinNameLen

\* full_address of a result
FullAddress(r) ==
    LET address_details == Get(r.dict, "address", EmptyDict)
        house_number == Get(address_details, "house_number", "")
        road == Get(address_details, "road", "")
        city == Get(address_details, "city",
                    Get(address_details, "town", Get(address_details, "village", "")))
        state == Get(address_details, "state", "")
        postcode == Get(address_details, "postcode", "")
        street == IF house_number # "" /\ road # "" THEN <<<<house_number, road>>>>
                  ELSE IF road # "" THEN <<<<road>>>> ELSE <<>>
        address_parts ==
            street \o (IF city # "" THEN <<<<city>>>> ELSE <<>>)
                   \o (IF state # "" THEN <<<<state>>>> ELSE <<>>)
                   \o (IF postcode # "" THEN <<<<postcode>>>> ELSE <<>>)
    IN  IF address_parts # <<>> THEN [joined |-> address_parts]
        ELSE [raw |-> Get(r.dict, "display_name", "Address not available")]

\* the formatted entry of a result
Entry(r) ==
    LET lat == Get(r.dict, "lat", "")
        lon == Get(r.dict, "lon", "")
    IN  [name |-> ExtractName(r),
         address |-> FullAddress(r),
         coordinates |-> IF lat # "" /\ lon # "" THEN <<lat, lon>> ELSE <<>>]

\* the three strings the tool returns
Listing(loc, entries) == [kind |-> "listing", location |-> loc, entries |-> entries]
NoResultsMessage(loc) == [kind |-> "noresults", location |-> loc, entries |-> <<>>]
FailureMessage(loc) == [kind |-> "failure", location |-> loc, entries |-> <<>>]

\* if len(all_results) >= 5: break   (inside the loop over results)
InnerBreak(all) == Len(all) >= ResultLimit

OuterBreakNever(all) == FALSE
\* if len(all_results) >= 5: break   (inside the loop over queries)
OuterBreak(all) == Len(all) >= ResultLimit

FormatResultAlwaysListing(loc, all) == Listing(loc, all)
\* if all_results: header + entries + footer, else the no-results message
FormatResult(loc, all) ==
    IF all # <<>> THEN Listing(loc, all) ELSE NoResultsMessage(loc)

\* locate_therapist_tool(location): entry and "import requests"
LocateTherapistTool ==
    /\ pc = "idle"
    /\ \E loc \in Locations : location' = loc
    /\ qi' = 1
    /\ ri' = 0
    /\ all_results' = <<>>
    /\ seen_names' = {}
    /\ requests' = <<>>
    /\ non2xx_seen' = FALSE
    /\ dup_skipped' = FALSE
    /\ unusable_skipped' = FALSE
    /\ usable_seen' = FALSE
    /\ IF requests_module
       THEN /\ pc' = "locate_request"
            /\ exception_seen' = FALSE
            /\ raised' = FALSE
            /\ result' = None
       ELSE /\ pc' = "returned"
            /\ exception_seen' = TRUE
            /\ raised' = TRUE
            /\ result' = [op |-> "locate_therapist_tool", value |-> None]
    /\ UNCHANGED requests_module
    /\ UNCHANGED toolVars
    /\ UNCHANGED parseVars

\* except Exception: return the apology
LocateExcept ==
    /\ exception_seen' = TRUE
    /\ raised' = FALSE
    /\ result' = [op |-> "locate_therapist_tool", value |-> FailureMessage(location)]
    /\ pc' = "returned"

\* end of the body of the loop over queries, reached with all_results = all
AfterResponse(all) ==
    /\ pc' = IF OuterBreak(all) \/ qi = NumQueries THEN "locate_format" ELSE "locate_request"
    /\ qi' = IF OuterBreak(all) \/ qi = NumQueries THEN qi ELSE qi + 1
    /\ ri' = 0

\* requests.get(...) and the test of response.status_code
LocateRequest ==
    /\ pc = "locate_request"
    /\ requests' = Append(requests, Query(qi, location))
    /\ \/ /\ LocateExcept
          /\ UNCHANGED <<qi, ri, non2xx_seen>>
       \/ \E status \in StatusCodes :
            /\ non2xx_seen' = (non2xx_seen \/ status \notin 200..299)
            /\ IF status = 200
               THEN \/ /\ pc' = "locate_results"
                       /\ ri' = 0
                       /\ UNCHANGED <<qi, exception_seen, raised, result>>
                    \/ /\ LocateExcept
                       /\ UNCHANGED <<qi, ri>>
               ELSE /\ AfterResponse(all_results)
                    /\ UNCHANGED <<exception_seen, raised, result>>
    /\ UNCHANGED <<requests_module, location, all_results, seen_names, dup_skipped,
                   unusable_skipped, usable_seen>>
    /\ UNCHANGED toolVars
    /\ UNCHANGED parseVars

\* one iteration of "for result in results"
LocateResult ==
    /\ pc = "locate_results"
    /\ ri < MaxResults
    /\ \E r \in ResultPool :
         IF ~IsObject(r)
         THEN /\ LocateExcept
              /\ UNCHANGED <<qi, ri, all_results, seen_names, dup_skipped,
                             unusable_skipped, usable_seen>>
         ELSE LET name == ExtractName(r)
                  all == Append(all_results, Entry(r))
              IN  /\ usable_seen' = (usable_seen \/ Usable(r))
                  /\ unusable_skipped' = (unusable_skipped \/ ~Usable(r))
                  /\ IF Accept(name, seen_names)
                     THEN /\ seen_names' = seen_names \cup {name}
                          /\ all_results' = all
                          /\ IF InnerBreak(all)
                             THEN AfterResponse(all)
                             ELSE /\ ri' = ri + 1
                                  /\ UNCHANGED <<pc, qi>>
                          /\ UNCHANGED <<dup_skipped, exception_seen, raised, result>>
                     ELSE /\ ri' = ri + 1
                          /\ dup_skipped' = (dup_skipped \/ name \in seen_names)
                          /\ UNCHANGED <<pc, qi, all_results, seen_names,
                                         exception_seen, raised, result>>
    /\ UNCHANGED <<requests_module, location, requests, non2xx_seen>>
    /\ UNCHANGED toolVars
    /\ UNCHANGED parseVars

\* the list of results is exhausted
LocateResultsEnd ==
    /\ pc = "locate_results"
    /\ AfterResponse(all_results)
    /\ UNCHANGED <<result, raised>>
    /\ UNCHANGED <<requests_module, location, all_results, seen_names, requests,
                   non2xx_seen, exception_seen, dup_skipped, unusable_skipped,
                   usable_seen>>
    /\ UNCHANGED toolVars
    /\ UNCHANGED parseVars

\* the statements after the loop over queries
LocateFormat ==
    /\ pc = "locate_format"
    /\ result' = [op |-> "locate_therapist_tool", value |-> FormatResult(location, all_results)]
    /\ pc' = "returned"
    /\ UNCHANGED raised
    /\ UNCHANGED locateVars
    /\ UNCHANGED toolVars
    /\ UNCHANGED parseVars

\* ------------------------------------------- ai_agent.py: parse_response
ToolNames == {"locate_therapist_tool", "emergency_call_tool"}
Contents == {"", "Here are some options", "Final answer"}

\* message objects; a tool message may lack the name attribute
ToolMsgs == {[name |-> n] : n \in ToolNames} \cup {EmptyDict}
AgentMsgs == {[content |-> c] : c \in Contents}

\* the value under 'tools' or 'agent': an empty dict, a dict whose 'messages'
\* is a list, or a dict whose 'messages' is a tuple
StepData(Msgs, sample) ==
    {EmptyDict, [messages |-> [tuple |-> <<sample>>]]}
    \cup {[messages |-> [list |-> m]] : m \in SeqsUpTo(Msgs, MaxMsgs)}

\* number of messages a step value carries
Carried(d) ==
    IF "messages" \notin DOMAIN d THEN 0
    ELSE IF "list" \in DOMAIN d.messages THEN Len(d.messages.list) ELSE 1

\* steps of a stream: dicts with any of the keys 'tools' and 'agent'
Steps ==
    LET T == StepData(ToolMsgs, [name |-> "locate_therapist_tool"])
        A == StepData(AgentMsgs, [content |-> "Final answer"])
    IN  {EmptyDict}
        \cup {[tools |-> t] : t \in T}
        \cup {[agent |-> a] : a \in A}
        \cup {[tools |-> t, agent |-> a] : t \in T, a \in {x \in A : Carried(x) <= 1}}

\* the messages the loop body iterates for key k of step s:
\* data = s.get(k); if data: messages = data.get('messages');
\* if messages and isinstance(messages, list): for msg in messages
IteratedMessages(s, k) ==
    IF k \notin DOMAIN s THEN <<>>
    ELSE IF DOMAIN s[k] = {} THEN <<>>
    ELSE IF "messages" \notin DOMAIN s[k] THEN <<>>
    ELSE IF "list" \notin DOMAIN s[k].messages THEN <<>>
    ELSE s[k].messages.list

\* for msg in tool_messages: tool_called_name = getattr(msg, 'name', 'None')
RECURSIVE AssignToolName(_, _)
AssignToolName(msgs, name) ==
    IF msgs = <<>> THEN name
    ELSE AssignToolName(Tail(msgs), Get(Head(msgs), "name", "None"))

AssignContentUnconditionally(msg, response) == msg.content
\* if msg.content: final_response = msg.content
AssignContent(msg, response) == IF msg.content # "" THEN msg.content ELSE response

\* for msg in messages: if msg.content: final_response = msg.content
RECURSIVE AssignFinalResponse(_, _)
AssignFinalResponse(msgs, response) ==
    IF msgs = <<>> THEN response
    ELSE AssignFinalResponse(Tail(msgs), AssignContent(Head(msgs), response))

\* parse_response(stream): the statements before the loop
ParseResponse ==
    /\ pc = "idle"
    /\ tool_called_name' = "None"
    /\ final_response' = None
    /\ stream' = <<>>
    /\ pc' = "parse_loop"
    /\ raised' = FALSE
    /\ result' = None
    /\ UNCHANGED toolVars
    /\ UNCHANGED locateVars

\* one iteration of "for s in stream": the stream yields a step
ParseStep ==
    /\ pc = "parse_loop"
    /\ Len(stream) < MaxSteps
    /\ \E s \in Steps :
         /\ stream' = Append(stream, s)
         /\ tool_called_name' = AssignToolName(IteratedMessages(s, "tools"), tool_called_name)
         /\ final_response' = AssignFinalResponse(IteratedMessages(s, "agent"), final_response)
    /\ UNCHANGED <<pc, result, raised>>
    /\ UNCHANGED toolVars
    /\ UNCHANGED locateVars

\* the stream is exhausted: return tool_called_name, final_response
ParseReturn ==
    /\ pc = "parse_loop"
    /\ result' = [op |-> "parse_response", value |-> <<tool_called_name, final_response>>]
    /\ pc' = "returned"
    /\ UNCHANGED raised
    /\ UNCHANGED parseVars
    /\ UNCHANGED toolVars
    /\ UNCHANGED locateVars

\* the operation has returned to its caller, which may call again
ToolReturn ==
    /\ pc = "returned"
    /\ pc' = "idle"
    /\ UNCHANGED <<result, raised>>
    /\ UNCHANGED toolVars
    /\ UNCHANGED locateVars
    /\ UNCHANGED parseVars

LocateIdle ==
    /\ location = None
    /\ qi = 1
    /\ ri = 0
    /\ all_results = <<>>
    /\ seen_names = {}
    /\ requests = <<>>
    /\ non2xx_seen = FALSE
    /\ exception_seen = FALSE
    /\ dup_skipped = FALSE
    /\ unusable_skipped = FALSE
    /\ usable_seen = FALSE

ToolsIdle ==
    /\ prompt = None
    /\ chat_calls = <<>>
    /\ api_calls = 0
    /\ stdout = <<>>
    /\ call_outcome = "none"

ParseIdle ==
    /\ stream = <<>>
    /\ tool_called_name = "None"
    /\ final_response = None

\* state after the imports at the top of tools.py
Init ==
    /\ pc = "idle"
    /\ result = None
    /\ raised = FALSE
    /\ ollama \in {None, "module"}
    /\ Client \in {None, "class"}
    /\ ToolsIdle
    /\ LocateIdle
    /\ requests_module = TRUE
    /\ ParseIdle

Next ==
    \/ AskMentalHealthSpecialist
    \/ MedgemmaChat
    \/ EmergencyCallTool
    \/ CallClient
    \/ CallCreate
    \/ ToolReturn

Spec == Init /\ [][Next]_vars

\* state before locate_therapist_tool is invoked
InitLocate ==
    /\ pc = "idle"
    /\ result = None
    /\ raised = FALSE
    /\ ollama = "module"
    /\ Client = "class"
    /\ ToolsIdle
    /\ LocateIdle
    /\ requests_module \in BOOLEAN
    /\ ParseIdle

NextLocate ==
    \/ LocateTherapistTool
    \/ LocateRequest
    \/ LocateResult
    \/ LocateResultsEnd
    \/ LocateFormat
    \/ ToolReturn

SpecLocate == InitLocate /\ [][NextLocate]_vars

\* state before parse_response is called
InitParse ==
    /\ pc = "idle"
    /\ result = None
    /\ raised = FALSE
    /\ ollama = "module"
    /\ Client = "class"
    /\ ToolsIdle
    /\ LocateIdle
    /\ requests_module = TRUE
    /\ ParseIdle

NextParse ==
    \/ ParseResponse
    \/ ParseStep
    \/ ParseReturn
    \/ ToolReturn

SpecParse == InitParse /\ [][NextParse]_vars

\* ------------------------------------------------------------ properties
Returned(op) == pc = "returned" /\ result.op = op

\* all messages iterated under key k over the whole stream, in order
RECURSIVE Flatten(_, _)
Flatten(st, k) ==
    IF st = <<>> THEN <<>> ELSE IteratedMessages(Head(st), k) \o Flatten(Tail(st), k)

HasContent(msg) == msg.content # ""

LastToolName(st) ==
    LET msgs == Flatten(st, "tools")
    IN  IF msgs = <<>> THEN "None"
        ELSE IF "name" \in DOMAIN Last(msgs) THEN Last(msgs).name ELSE "None"

LastNonEmptyContent(st) ==
    LET msgs == SelectSeq(Flatten(st, "agent"), HasContent)
    IN  IF msgs = <<>> THEN None ELSE Last(msgs).content

\* C1: parse_response returns (T, R): T is the name of the last tool message
\* of the stream ("None" when there is none, or when that message carries no
\* name), R the content of the last agent message with non-empty content
\* (absent when there is none); messages count when they sit in a list.
C1_ParseResponseReturnsLast ==
    Returned("parse_response") =>
        result.value = <<LastToolName(stream), LastNonEmptyContent(stream)>>

\* a stream with two tool messages of different names, and an agent message
\* with empty content after one with content, has been parsed
C1_Witness ==
    /\ Returned("parse_response")
    /\ LET tm == Flatten(stream, "tools")
           am == Flatten(stream, "agent")
       IN  /\ Len(tm) >= 2
           /\ tm[1] # Last(tm)
           /\ result.value[1] \in ToolNames
           /\ Len(am) >= 2
           /\ HasContent(am[1])
           /\ ~HasContent(Last(am))
           /\ result.value[2] # None

\* C2: an invocation of the emergency tool sends at most one call-creation
\* request, whatever the outcome of the request.
C2_AtMostOneCallPerInvocation == api_calls <= 1

\* the one request failed and the tool returned without a second request
C2_Witness ==
    /\ Returned("call_emergency")
    /\ call_outcome = "create_raised"
    /\ api_calls = 1

\* C3: when the client construction or the call creation raises,
\* call_emergency returns None and does not raise; on success it returns the
\* call record.
C3_CallEmergencyReturnsNoneOnError ==
    Returned("call_emergency") =>
        /\ raised = FALSE
        /\ call_outcome \in {"client_raised", "create_raised"} => result.value = None
        /\ call_outcome = "created" => result.value = CallRecord

\* call creation raised and the function returned None
C3_Witness ==
    /\ Returned("call_emergency")
    /\ call_outcome = "create_raised"
    /\ result.value = None
    /\ raised = FALSE

\* C4: locate_therapist_tool returns a string and never raises; when an
\* exception occurred at any point of the operation the result is the
\* apology naming the location.
C4_LocateIsTotal ==
    Returned("locate_therapist_tool") =>
        /\ raised = FALSE
        /\ result.value # None
        /\ exception_seen => result.value = FailureMessage(location)

\* C5: a response with a status outside 200..299 makes the tool return the
\* failure message.
C5_Non2xxGivesFailureMessage ==
    (Returned("locate_therapist_tool") /\ non2xx_seen) =>
        result.value = FailureMessage(location)

NonEmpty(str) == IF str.kind = "fixed" THEN str.text # "" ELSE Len(str.text) > 0

\* C6: query_medgemma returns a non-empty string for every behaviour of the
\* backend.
C6_MedgemmaReturnsNonEmpty ==
    Returned("query_medgemma") => NonEmpty(result.value)

\* C7: the entries of a returned listing have pairwise distinct display
\* names, none shorter than 4 characters.
C7_EntriesDistinctAndLongEnough ==
    (Returned("locate_therapist_tool") /\ ~raised) =>
        LET entries == result.value.entries
        IN  /\ \A i, j \in 1..Len(entries) : i # j => entries[i].name # entries[j].name
            /\ \A i \in 1..Len(entries) : Len(entries[i].name) >= 4

\* two results shared a display name and the listing has one entry
C7_Witness ==
    /\ Returned("locate_therapist_tool")
    /\ ~raised
    /\ result.value.kind = "listing"
    /\ dup_skipped
    /\ Len(result.value.entries) = 1

\* C8: when no response carried a usable result and nothing raised, the tool
\* returns exactly the no-results message for the location.
C8_NoUsableResultGivesNoResultsMessage ==
    (Returned("locate_therapist_tool") /\ ~exception_seen /\ ~usable_seen) =>
        result.value = NoResultsMessage(location)

\* four responses with status 200 were read, results with empty or short
\* names were iterated, and the tool returned
C8_Witness ==
    /\ Returned("locate_therapist_tool")
    /\ ~exception_seen
    /\ ~usable_seen
    /\ unusable_skipped
    /\ ~non2xx_seen
    /\ Len(requests) = NumQueries
    /\ result.value.kind = "noresults"

\* C9: with the library missing, query_medgemma returns the backend
\* unavailable string and call_emergency returns None, and no request is
\* sent to the external service.
C9_UnavailableBackendShortCircuits ==
    /\ (Returned("query_medgemma") /\ ollama = None) =>
           /\ result.value.text =
                "I'm having technical difficulties: language model backend is unavailable right now. Please try again later."
           /\ result.value.kind = "fixed"
    /\ ollama = None => chat_calls = <<>>
    /\ (Returned("call_emergency") /\ Client = None) =>
           /\ result.value = None
           /\ raised = FALSE
    /\ Client = None => api_calls = 0 /\ call_outcome = "none"

\* both libraries are missing and query_medgemma returned
C9_Witness ==
    /\ Returned("query_medgemma")
    /\ ollama = None
    /\ Client = None

\* C10: the requests are issued in the fixed order, at most four; there are
\* never more than 5 entries; once 5 entries are collected the invocation
\* iterates no further result and issues no further request.
C10_State ==
    /\ Len(requests) <= NumQueries
    /\ \A i \in 1..Len(requests) : requests[i].q = <<QueryPrefixes[i], location>>
    /\ Len(all_results) <= 5
    /\ Returned("locate_therapist_tool") /\ ~raised => Len(result.value.entries) <= 5

C10_Step ==
    (Len(all_results) >= 5 /\ pc # "idle") =>
        /\ requests' = requests
        /\ all_results' = all_results
        /\ pc' \in {"locate_format", "returned", "idle"}

C10_OrderedRequestsAndCap == [](C10_State) /\ [][C10_Step]_vars

\* five entries were collected by the second request and the listing returned
C10_Witness ==
    /\ Returned("locate_therapist_tool")
    /\ ~raised
    /\ Len(result.value.entries) = 5
    /\ Len(requests) = 2
====
